---- MODULE Spec2Model ----
(***************************************************************************)
(* Event bus of event.c / event.h: a bounded circular queue of event       *)
(* records, a per-type subscriber table, a flat observer table, and the    *)
(* publish / process / dispatch protocol.                                  *)
(*                                                                         *)
(* EVENT_Process is modelled step by step (pop, one handler call at a      *)
(* time) because a handler is client code that may call back into the bus  *)
(* while a record is being dispatched.  Every other operation is one       *)
(* atomic action.  The timestamp field of Event_t is left out: it is       *)
(* sampled from clock() and no operation of the bus ever reads it.         *)
(***************************************************************************)
EXTENDS Integers, Sequences, FiniteSets, TLC

(* ------------------------------------------------------------------ *)
(* Configuration macros of event.h, scaled down for model checking.    *)
(* ------------------------------------------------------------------ *)
EVENT_MAX_COUNT == 2
EVENT_SUBSCRIBER_MAX == 2
EVENT_OBSERVER_MAX == 2
EVENT_QUEUE_SIZE == 2
EVENT_DATA_SIZE_MAX == 1

(* Bounds of the environment: the values callers pass in. *)
MaxCallback == 2
MaxArg == 1
MaxPriority == 1
MaxBuf == 1
MaxOps == 4
MaxOpsShort == 3
MaxOpsQueue == 5
MaxOpsQueueShort == 3
MaxReent == 1

NULL == 0

Types == 0..(EVENT_MAX_COUNT - 1)
TypeArgs == 0..EVENT_MAX_COUNT
SubSlots == 0..(EVENT_SUBSCRIBER_MAX - 1)
ObsSlots == 0..(EVENT_OBSERVER_MAX - 1)
QueueSlots == 0..(EVENT_QUEUE_SIZE - 1)
DataIdx == 1..EVENT_DATA_SIZE_MAX
Callbacks == 1..MaxCallback
CallbackArgs == {NULL} \cup Callbacks
Args == 0..MaxArg
Priorities == 0..MaxPriority
DataArgs == 0..MaxBuf
SizeArgs == 0..(EVENT_DATA_SIZE_MAX + 1)

(* The caller's memory: the bytes found at the non-null pointer p. *)
CallerData(p) == [k \in 1..(EVENT_DATA_SIZE_MAX + 1) |-> 16 * p + k]

(* memset(&event, 0, sizeof(event)) *)
ZeroEvent ==
    [type |-> 0, priority |-> 0, data_size |-> 0, data |-> [k \in DataIdx |-> 0]]

(* memset of one Subscriber_t / Observer_t *)
ZeroSlot == [callback |-> NULL, arg |-> NULL, used |-> 0]

VARIABLES
    g_initialized,   \* uint8_t g_initialized
    g_queue,         \* EventQueue_t g_queue: queue, head, tail, count
    g_subscribers,   \* Subscriber_t g_subscribers[type][slot]
    g_observers,     \* Observer_t g_observers[slot]
    pc,              \* "idle", or the position inside EVENT_Process
    e,               \* EVENT_Process: Event_t* e, as an index into g_queue.queue
    phase,           \* dispatch_event: which of the two loops is running
    i,               \* dispatch_event: loop index of the handler being called
    count,           \* EVENT_Process: int count
    last,            \* the last completed API call and its return value
    disp,            \* history of the dispatch in progress (or just finished)
    pend,            \* history: records published and not yet popped or cleared
    nops,            \* number of successful publishes and registrations so far
    nre,             \* number of calls handlers made in this EVENT_Process
    hist             \* history of the last EVENT_Process or EVENT_ClearQueue

vars == <<g_initialized, g_queue, g_subscribers, g_observers, pc, e, phase, i,
          count, last, disp, pend, nops, nre, hist>>

bus == <<g_initialized, g_queue, g_subscribers, g_observers>>
proc == <<pc, e, phase, i, count>>

NoDisp == [active |-> FALSE]

(* No history: dropped is the number of records the last call, an      *)
(* EVENT_ClearQueue, discarded; entry, pops and ncalls are the queue    *)
(* count on entry of the current or last EVENT_Process, the records it  *)
(* dequeued and the handler calls it made.                              *)
ZeroHist == [dropped |-> 0, entry |-> 0, pops |-> 0, ncalls |-> 0]

(* The highest index of a set: what a descending loop would meet first. *)
Last(S) == CHOOSE x \in S : \A y \in S : x >= y

(* The lowest index of a set: what an ascending for loop meets first. *)
Min(S) == CHOOSE x \in S : \A y \in S : x <= y

(* ------------------------------------------------------------------ *)
(* The event queue.                                                    *)
(* ------------------------------------------------------------------ *)
queue_init ==
    [queue |-> [k \in QueueSlots |-> ZeroEvent], head |-> 0, tail |-> 0, count |-> 0]

(* A full check that is off by one. *)
queue_full_off_by_one(q) == q.count > EVENT_QUEUE_SIZE

(* queue_push's full check *)
queue_full(q) == q.count >= EVENT_QUEUE_SIZE

(* A push that advances tail without the modulo. *)
queue_push_no_wrap(q, event) ==
    [q EXCEPT !.queue[q.tail] = event,
              !.tail = q.tail + 1,
              !.count = q.count + 1]

(* queue_push past its full check: memcpy into tail, advance tail, count++ *)
queue_push(q, event) ==
    [q EXCEPT !.queue[q.tail] = event,
              !.tail = (q.tail + 1) % EVENT_QUEUE_SIZE,
              !.count = q.count + 1]

(* queue_pop past its empty check: the queue after the pop ... *)
queue_pop(q) ==
    [q EXCEPT !.head = (q.head + 1) % EVENT_QUEUE_SIZE,
              !.count = q.count - 1]

(* The pointer taken after head was advanced. *)
queue_pop_ptr_late(q) == (q.head + 1) % EVENT_QUEUE_SIZE

(* ... and the pointer it returns, &g_queue.queue[g_queue.head], taken *)
(* before head is advanced.                                            *)
queue_pop_ptr(q) == q.head

queue_is_empty(q) == q.count = 0

queue_get_count(q) == q.count

(* ------------------------------------------------------------------ *)
(* Initial state: zero-initialised static storage.                     *)
(* ------------------------------------------------------------------ *)
Init ==
    /\ g_initialized = 0
    /\ g_queue = queue_init
    /\ g_subscribers = [t \in Types |-> [j \in SubSlots |-> ZeroSlot]]
    /\ g_observers = [j \in ObsSlots |-> ZeroSlot]
    /\ pc = "idle"
    /\ e = 0
    /\ phase = "none"
    /\ i = 0
    /\ count = 0
    /\ last = [op |-> "none", ret |-> 0, line |-> 0]
    /\ disp = NoDisp
    /\ pend = <<>>
    /\ nops = 0
    /\ nre = 0
    /\ hist = ZeroHist

(* An API function can be called by the application between two calls  *)
(* of EVENT_Process, or by a handler that EVENT_Process is running.    *)
CanCall == pc = "idle" \/ (pc = "handler" /\ nre < MaxReent)

(* The call returns r from the return statement at the given line; a   *)
(* call made by a handler is noted in the history of the dispatch it   *)
(* interrupts.                                                         *)
Returned(opname, r, ln) ==
    /\ last' = [op |-> opname, ret |-> r, line |-> ln]
    /\ disp' = IF pc = "handler" THEN [disp EXCEPT !.reent = @ \cup {opname}] ELSE disp
    /\ nre' = IF pc = "handler" THEN nre + 1 ELSE nre
    /\ hist' = IF pc = "handler"
               THEN hist
               ELSE [ZeroHist EXCEPT !.dropped =
                        IF opname = "clear_queue" THEN Len(pend) ELSE 0]

(* An init that forgets memset(g_observers). *)
EVENT_InitKeepsObservers ==
    /\ CanCall
    /\ g_queue' = queue_init
    /\ g_subscribers' = [t \in Types |-> [j \in SubSlots |-> ZeroSlot]]
    /\ g_initialized' = 1
    /\ pend' = <<>>
    /\ Returned("init", 0, 107)
    /\ UNCHANGED <<g_observers, proc, nops>>

EVENT_Init ==
    /\ CanCall
    /\ g_queue' = queue_init
    /\ g_subscribers' = [t \in Types |-> [j \in SubSlots |-> ZeroSlot]]
    /\ g_observers' = [j \in ObsSlots |-> ZeroSlot]
    /\ g_initialized' = 1
    /\ pend' = <<>>
    /\ Returned("init", 0, 107)
    /\ UNCHANGED <<proc, nops>>

(* The unused slots of a table; the for loop takes the first. *)
FreeSlots(table) == {j \in DOMAIN table : table[j].used = 0}

(* A match that forgets the used flag. *)
SubMatchStale(table, callback, arg) ==
    {j \in DOMAIN table : table[j].callback = callback /\ table[j].arg = arg}

(* A match on the callback alone. *)
SubMatchCallbackOnly(table, callback, arg) ==
    {j \in DOMAIN table : table[j].used # 0 /\ table[j].callback = callback}

(* The slots EVENT_Unsubscribe's condition accepts. *)
SubMatch(table, callback, arg) ==
    {j \in DOMAIN table : /\ table[j].used # 0
                          /\ table[j].callback = callback
                          /\ table[j].arg = arg}

(* An observer match that forgets the used flag. *)
ObsMatchStale(table, callback) ==
    {j \in DOMAIN table : table[j].callback = callback}

(* The slots EVENT_UnregisterObserver's condition accepts. *)
ObsMatch(table, callback) ==
    {j \in DOMAIN table : table[j].used # 0 /\ table[j].callback = callback}

(* The argument check shared by EVENT_Subscribe and EVENT_Unsubscribe. *)
BadSubscribeArgs(type, callback) ==
    g_initialized = 0 \/ type >= EVENT_MAX_COUNT \/ callback = NULL

(* A subscribe that takes a triple already registered as done. *)
EVENT_SubscribeDedup(type, callback, arg) ==
    /\ CanCall
    /\ IF BadSubscribeArgs(type, callback)
       THEN /\ Returned("subscribe", -1, 113)
            /\ UNCHANGED <<g_subscribers, nops>>
       ELSE IF SubMatch(g_subscribers[type], callback, arg) # {}
       THEN /\ Returned("subscribe", 0, 121)
            /\ UNCHANGED <<g_subscribers, nops>>
       ELSE IF FreeSlots(g_subscribers[type]) = {}
       THEN /\ Returned("subscribe", -1, 124)
            /\ UNCHANGED <<g_subscribers, nops>>
       ELSE /\ Returned("subscribe", 0, 121)
            /\ g_subscribers' =
                 [g_subscribers EXCEPT ![type][Min(FreeSlots(g_subscribers[type]))] =
                     [callback |-> callback, arg |-> arg, used |-> 1]]
            /\ nops' = nops + 1
    /\ UNCHANGED <<g_initialized, g_queue, g_observers, pend>>
    /\ UNCHANGED proc

EVENT_Subscribe(type, callback, arg) ==
    /\ CanCall
    /\ IF BadSubscribeArgs(type, callback)
       THEN /\ Returned("subscribe", -1, 113)
            /\ UNCHANGED <<g_subscribers, nops>>
       ELSE IF FreeSlots(g_subscribers[type]) = {}
       THEN /\ Returned("subscribe", -1, 124)
            /\ UNCHANGED <<g_subscribers, nops>>
       ELSE /\ Returned("subscribe", 0, 121)
            /\ g_subscribers' =
                 [g_subscribers EXCEPT ![type][Min(FreeSlots(g_subscribers[type]))] =
                     [callback |-> callback, arg |-> arg, used |-> 1]]
            /\ nops' = nops + 1
    /\ UNCHANGED <<g_initialized, g_queue, g_observers, pend>>
    /\ UNCHANGED proc

EVENT_Unsubscribe(type, callback, arg) ==
    /\ CanCall
    /\ IF BadSubscribeArgs(type, callback)
       THEN /\ Returned("unsubscribe", -1, 130)
            /\ UNCHANGED g_subscribers
       ELSE IF SubMatch(g_subscribers[type], callback, arg) = {}
       THEN /\ Returned("unsubscribe", -1, 141)
            /\ UNCHANGED g_subscribers
       ELSE /\ Returned("unsubscribe", 0, 138)
            /\ g_subscribers' =
                 [g_subscribers EXCEPT
                     ![type][Min(SubMatch(g_subscribers[type], callback, arg))].used = 0]
    /\ UNCHANGED <<g_initialized, g_queue, g_observers, pend, nops>>
    /\ UNCHANGED proc

(* A first check that forgets g_initialized. *)
BadPublishArgsNoInit(type) == type >= EVENT_MAX_COUNT

(* EVENT_Publish's first check. *)
BadPublishArgs(type) == g_initialized = 0 \/ type >= EVENT_MAX_COUNT

(* A second check that forgets to test the data pointer. *)
PayloadTooLargeWithoutData(data, data_size) == data_size > EVENT_DATA_SIZE_MAX

(* EVENT_Publish's second check. *)
PayloadTooLarge(data, data_size) == data # NULL /\ data_size > EVENT_DATA_SIZE_MAX

(* The Event_t that EVENT_Publish builds on its stack. *)
MakeEvent(type, priority, data, data_size) ==
    IF data # NULL /\ data_size > 0
    THEN [type |-> type, priority |-> priority, data_size |-> data_size,
          data |-> [k \in DataIdx |-> IF k <= data_size THEN CallerData(data)[k] ELSE 0]]
    ELSE [ZeroEvent EXCEPT !.type = type, !.priority = priority]

(* A publish that copies the record into the tail slot before the     *)
(* full check.                                                         *)
EVENT_PublishCopiesFirst(type, priority, data, data_size) ==
    /\ CanCall
    /\ IF BadPublishArgs(type)
       THEN /\ Returned("publish", -1, 148)
            /\ UNCHANGED <<g_queue, pend, nops>>
       ELSE IF PayloadTooLarge(data, data_size)
       THEN /\ Returned("publish", -1, 151)
            /\ UNCHANGED <<g_queue, pend, nops>>
       ELSE IF queue_full(g_queue)
       THEN /\ Returned("publish", -1, 166)
            /\ g_queue' = [g_queue EXCEPT !.queue[g_queue.tail] =
                              MakeEvent(type, priority, data, data_size)]
            /\ UNCHANGED <<pend, nops>>
       ELSE /\ Returned("publish", 0, 170)
            /\ g_queue' = queue_push(g_queue, MakeEvent(type, priority, data, data_size))
            /\ pend' = Append(pend, MakeEvent(type, priority, data, data_size))
            /\ nops' = nops + 1
    /\ UNCHANGED <<g_initialized, g_subscribers, g_observers>>
    /\ UNCHANGED proc

EVENT_Publish(type, priority, data, data_size) ==
    /\ CanCall
    /\ IF BadPublishArgs(type)
       THEN /\ Returned("publish", -1, 148)
            /\ UNCHANGED <<g_queue, pend, nops>>
       ELSE IF PayloadTooLarge(data, data_size)
       THEN /\ Returned("publish", -1, 151)
            /\ UNCHANGED <<g_queue, pend, nops>>
       ELSE IF queue_full(g_queue)
       THEN /\ Returned("publish", -1, 166)
            /\ UNCHANGED <<g_queue, pend, nops>>
       ELSE /\ Returned("publish", 0, 170)
            /\ g_queue' = queue_push(g_queue, MakeEvent(type, priority, data, data_size))
            /\ pend' = Append(pend, MakeEvent(type, priority, data, data_size))
            /\ nops' = nops + 1
    /\ UNCHANGED <<g_initialized, g_subscribers, g_observers>>
    /\ UNCHANGED proc

(* A clear that also wipes the observers. *)
EVENT_ClearQueueDropsObservers ==
    /\ CanCall
    /\ g_queue' = queue_init
    /\ g_observers' = [j \in ObsSlots |-> ZeroSlot]
    /\ pend' = <<>>
    /\ Returned("clear_queue", 0, 210)
    /\ UNCHANGED <<g_initialized, g_subscribers, nops>>
    /\ UNCHANGED proc

EVENT_ClearQueue ==
    /\ CanCall
    /\ g_queue' = queue_init
    /\ pend' = <<>>
    /\ Returned("clear_queue", 0, 210)
    /\ UNCHANGED <<g_initialized, g_subscribers, g_observers, nops>>
    /\ UNCHANGED proc

EVENT_GetCount ==
    /\ CanCall
    /\ Returned("get_count", queue_get_count(g_queue), 215)
    /\ UNCHANGED <<bus, pend, nops>>
    /\ UNCHANGED proc

EVENT_RegisterObserver(callback, arg) ==
    /\ CanCall
    /\ IF g_initialized = 0 \/ callback = NULL
       THEN /\ Returned("register_observer", -1, 220)
            /\ UNCHANGED <<g_observers, nops>>
       ELSE IF FreeSlots(g_observers) = {}
       THEN /\ Returned("register_observer", -1, 230)
            /\ UNCHANGED <<g_observers, nops>>
       ELSE /\ Returned("register_observer", 0, 227)
            /\ g_observers' =
                 [g_observers EXCEPT ![Min(FreeSlots(g_observers))] =
                     [callback |-> callback, arg |-> arg, used |-> 1]]
            /\ nops' = nops + 1
    /\ UNCHANGED <<g_initialized, g_queue, g_subscribers, pend>>
    /\ UNCHANGED proc

EVENT_UnregisterObserver(callback) ==
    /\ CanCall
    /\ IF g_initialized = 0 \/ callback = NULL
       THEN /\ Returned("unregister_observer", -1, 235)
            /\ UNCHANGED g_observers
       ELSE IF ObsMatch(g_observers, callback) = {}
       THEN /\ Returned("unregister_observer", -1, 243)
            /\ UNCHANGED g_observers
       ELSE /\ Returned("unregister_observer", 0, 240)
            /\ g_observers' =
                 [g_observers EXCEPT ![Min(ObsMatch(g_observers, callback))].used = 0]
    /\ UNCHANGED <<g_initialized, g_queue, g_subscribers, pend, nops>>
    /\ UNCHANGED proc

(* ------------------------------------------------------------------ *)
(* EVENT_Process and dispatch_event.                                   *)
(* ------------------------------------------------------------------ *)

(* The observers' loop placed before the subscribers' loop. *)
DispatchLoopsSwapped == <<"obs", "sub">>

(* The two for loops of dispatch_event, in the order they run. *)
DispatchLoops == <<"sub", "obs">>

LoopNo(ph) == CHOOSE l \in 1..2 : DispatchLoops[l] = ph

(* The table a loop of dispatch_event walks for the record *event. *)
LoopTable(ph, event) ==
    IF ph = "sub" THEN g_subscribers[event.type] ELSE g_observers

(* A loop that starts one slot too far. *)
UsedFromSkipping(table, k) == {j \in DOMAIN table : j > k /\ table[j].used # 0}

(* The slots at or after k whose handler a loop of dispatch_event calls. *)
UsedFrom(table, k) == {j \in DOMAIN table : j >= k /\ table[j].used # 0}

(* The next handler dispatch_event calls when it resumes at index k of *)
(* loop number l for the record *event: <<loop, slot>>, or <<>> when   *)
(* both loops have run out.  event->type is read from the queue slot   *)
(* on every iteration.                                                 *)
NextCall(event, l, k) ==
    LET first == IF l = 1 THEN UsedFrom(LoopTable(DispatchLoops[1], event), k) ELSE {}
        second == UsedFrom(LoopTable(DispatchLoops[2], event), IF l = 1 THEN 0 ELSE k)
    IN  IF first # {} THEN <<DispatchLoops[1], Min(first)>>
        ELSE IF second # {} THEN <<DispatchLoops[2], Min(second)>>
        ELSE <<>>

(* dispatch_event for the record at pointer ptr, run from index k of   *)
(* loop ph up to its next handler call, or to its end (then            *)
(* EVENT_Process counts the record).  d is the dispatch's history.     *)
dispatch_event(ptr, ph, k, d) ==
    LET event == g_queue'.queue[ptr]
        nc == NextCall(event, LoopNo(ph), k)
    IN  IF nc # <<>>
        THEN /\ pc' = "handler"
             /\ e' = ptr
             /\ phase' = nc[1]
             /\ i' = nc[2]
             /\ count' = count
             /\ disp' = [d EXCEPT !.calls = Append(@,
                    [phase |-> nc[1], type |-> event.type, slot |-> nc[2],
                     callback |-> LoopTable(nc[1], event)[nc[2]].callback,
                     arg |-> LoopTable(nc[1], event)[nc[2]].arg,
                     event |-> event])]
        ELSE /\ pc' = "loop"
             /\ e' = 0
             /\ phase' = "none"
             /\ i' = 0
             /\ count' = count + 1
             /\ disp' = [d EXCEPT !.done = TRUE]

(* EVENT_Process is entered. *)
EVENT_Process ==
    /\ pc = "idle"
    /\ IF g_initialized = 0
       THEN /\ last' = [op |-> "process", ret |-> 0, line |-> 191]
            /\ hist' = ZeroHist
            /\ UNCHANGED proc
       ELSE /\ pc' = "loop"
            /\ count' = 0
            /\ last' = [op |-> "none", ret |-> 0, line |-> 0]
            /\ hist' = [ZeroHist EXCEPT !.entry = queue_get_count(g_queue)]
            /\ UNCHANGED <<e, phase, i>>
    /\ UNCHANGED <<bus, disp, pend, nops, nre>>

(* while (!queue_is_empty()): one record is popped and its dispatch starts. *)
ProcessPop ==
    /\ pc = "loop"
    /\ ~queue_is_empty(g_queue)
    /\ g_queue' = queue_pop(g_queue)
    /\ pend' = Tail(pend)
    /\ dispatch_event(queue_pop_ptr(g_queue), DispatchLoops[1], 0,
          [active |-> TRUE, done |-> FALSE,
           oldest |-> Head(pend),
           event |-> g_queue.queue[queue_pop_ptr(g_queue)],
           subs |-> g_subscribers, obs |-> g_observers,
           calls |-> <<>>, reent |-> {}])
    /\ hist' = [hist EXCEPT !.pops = @ + 1,
                            !.ncalls = IF pc' = "handler" THEN @ + 1 ELSE @]
    /\ UNCHANGED <<g_initialized, g_subscribers, g_observers, last, nops, nre>>

(* The handler returns and dispatch_event goes on with the next slot. *)
HandlerReturn ==
    /\ pc = "handler"
    /\ UNCHANGED <<bus, last, pend, nops, nre>>
    /\ dispatch_event(e, phase, i + 1, disp)
    /\ hist' = [hist EXCEPT !.ncalls = IF pc' = "handler" THEN @ + 1 ELSE @]

(* A return of the number of handler calls instead of the records. *)
ProcessReturnCountsCalls ==
    /\ pc = "loop"
    /\ queue_is_empty(g_queue)
    /\ pc' = "idle"
    /\ count' = 0
    /\ last' = [op |-> "process", ret |-> hist.ncalls, line |-> 203]
    /\ disp' = NoDisp
    /\ nre' = 0
    /\ UNCHANGED <<bus, e, phase, i, pend, nops, hist>>

(* The queue is empty: EVENT_Process returns count. *)
ProcessReturn ==
    /\ pc = "loop"
    /\ queue_is_empty(g_queue)
    /\ pc' = "idle"
    /\ count' = 0
    /\ last' = [op |-> "process", ret |-> count, line |-> 203]
    /\ disp' = NoDisp
    /\ nre' = 0
    /\ UNCHANGED <<bus, e, phase, i, pend, nops, hist>>

(* The application and the handlers, calling with arguments drawn from *)
(* the given sets: types T, callbacks CB, contexts A, priorities P,     *)
(* data pointers D, data sizes N.  B bounds the number of successful    *)
(* publishes and registrations of a behaviour.                          *)
Subscribe(T, CB, A, B) ==
    nops < B /\ \E t \in T, cb \in CB, a \in A : EVENT_Subscribe(t, cb, a)
Unsubscribe(T, CB, A) == \E t \in T, cb \in CB, a \in A : EVENT_Unsubscribe(t, cb, a)
Publish(T, P, D, N, B) ==
    nops < B /\ \E t \in T, p \in P, d \in D, n \in N : EVENT_Publish(t, p, d, n)
RegisterObserver(CB, A, B) ==
    nops < B /\ \E cb \in CB, a \in A : EVENT_RegisterObserver(cb, a)
UnregisterObserver(CB) == \E cb \in CB : EVENT_UnregisterObserver(cb)

(* The bus driven with registrations in full and events that carry no  *)
(* payload, for at most B successful publishes and registrations.      *)
RegistryNext(B) ==
    \/ EVENT_Init
    \/ Subscribe(TypeArgs, CallbackArgs, Args, B)
    \/ Unsubscribe(TypeArgs, CallbackArgs, Args)
    \/ Publish(TypeArgs, {0}, {NULL}, {0}, B)
    \/ EVENT_ClearQueue
    \/ EVENT_GetCount
    \/ RegisterObserver(CallbackArgs, {NULL}, B)
    \/ UnregisterObserver(CallbackArgs)
    \/ EVENT_Process
    \/ ProcessPop
    \/ HandlerReturn
    \/ ProcessReturn

Next == RegistryNext(MaxOps)

Spec == Init /\ [][Next]_vars

NextShort == RegistryNext(MaxOpsShort)

SpecShort == Init /\ [][NextShort]_vars

(* The bus driven with events in full and one handler. *)
QueueNext(B) ==
    \/ EVENT_Init
    \/ Subscribe(TypeArgs, {NULL, 1}, {NULL}, B)
    \/ Unsubscribe(TypeArgs, {NULL, 1}, {NULL})
    \/ Publish(TypeArgs, Priorities, DataArgs, SizeArgs, B)
    \/ EVENT_ClearQueue
    \/ EVENT_GetCount
    \/ RegisterObserver({NULL, 1}, {NULL}, B)
    \/ UnregisterObserver({NULL, 1})
    \/ EVENT_Process
    \/ ProcessPop
    \/ HandlerReturn
    \/ ProcessReturn

NextQueue == QueueNext(MaxOpsQueue)

SpecQueue == Init /\ [][NextQueue]_vars

NextQueueShort == QueueNext(MaxOpsQueueShort)

SpecQueueShort == Init /\ [][NextQueueShort]_vars

(* The bus driven with observers registered under every context and   *)
(* one event type.                                                     *)
ObserverNext(B) ==
    \/ EVENT_Init
    \/ Subscribe({0}, {NULL, 1}, {NULL}, B)
    \/ Unsubscribe({0}, {NULL, 1}, {NULL})
    \/ Publish({0}, {0}, {NULL}, {0}, B)
    \/ EVENT_ClearQueue
    \/ EVENT_GetCount
    \/ RegisterObserver(CallbackArgs, Args, B)
    \/ UnregisterObserver(CallbackArgs)
    \/ EVENT_Process
    \/ ProcessPop
    \/ HandlerReturn
    \/ ProcessReturn

NextObserver == ObserverNext(MaxOpsShort)

SpecObserver == Init /\ [][NextObserver]_vars

(* ------------------------------------------------------------------ *)
(* Properties.                                                         *)
(* ------------------------------------------------------------------ *)

(* The records the queue holds, oldest first: count slots from head. *)
LiveQueue(q) ==
    [k \in 1..q.count |-> q.queue[(q.head + k - 1) % EVENT_QUEUE_SIZE]]

ActiveSlots(table) == {j \in DOMAIN table : table[j].used # 0}

(* The positions of the calls of a dispatch made for slot j of a loop. *)
CallsOf(calls, ph, j) ==
    {c \in 1..Len(calls) : calls[c].phase = ph /\ calls[c].slot = j}

(* C1: FIFO.  The queue holds exactly the successfully published,      *)
(* not yet popped records in publication order, whatever their         *)
(* priority and wherever head and tail are; every pop hands out the    *)
(* oldest of them, the first handler of the dispatch (and every        *)
(* handler when no handler called the bus) is given that record, and   *)
(* when EVENT_Process has returned none is left.                       *)
C1_Fifo ==
    /\ LiveQueue(g_queue) = pend
    /\ disp.active =>
          /\ disp.event = disp.oldest
          /\ disp.calls # <<>> => disp.calls[1].event = disp.oldest
          /\ disp.reent = {} =>
                \A c \in 1..Len(disp.calls) : disp.calls[c].event = disp.oldest
    /\ (last.op = "process" /\ last.line = 203) => pend = <<>>

(* A handler is given the record at the last array slot while a record *)
(* of another type and of higher priority, published later, waits in   *)
(* slot 0: the buffer has wrapped.                                     *)
C1_Witness ==
    /\ pc = "handler"
    /\ e = EVENT_QUEUE_SIZE - 1
    /\ disp.calls[1].event = disp.oldest
    /\ pend # <<>>
    /\ g_queue.queue[0] = pend[1]
    /\ pend[1].priority > disp.event.priority
    /\ pend[1].type # disp.event.type

(* A publish whose arguments pass the checks, on an initialised bus. *)
ValidPublish(t, d, n) ==
    g_initialized = 1 /\ t < EVENT_MAX_COUNT /\ (d = NULL \/ n <= EVENT_DATA_SIZE_MAX)

(* C2: capacity.  A valid publish made when EVENT_QUEUE_SIZE published *)
(* records are pending fails and leaves the queue (so get_count) as it *)
(* was; made when fewer are pending it succeeds and adds one; and the  *)
(* first valid publish after an EVENT_Process that drained at least    *)
(* one record succeeds.                                                *)
C2_Capacity ==
    [][last'.op = "publish" =>
       \A t \in TypeArgs, p \in Priorities, d \in DataArgs, n \in SizeArgs :
          (ValidPublish(t, d, n) /\ EVENT_Publish(t, p, d, n)) =>
              /\ Len(pend) = EVENT_QUEUE_SIZE =>
                    /\ last'.ret = -1
                    /\ g_queue' = g_queue
                    /\ queue_get_count(g_queue') = EVENT_QUEUE_SIZE
              /\ Len(pend) < EVENT_QUEUE_SIZE =>
                    /\ last'.ret = 0
                    /\ queue_get_count(g_queue') = queue_get_count(g_queue) + 1
              /\ (last.op = "process" /\ last.ret >= 1) => last'.ret = 0]_vars

(* A publish has just been refused by the full check, with             *)
(* EVENT_QUEUE_SIZE published records pending.                         *)
C2_Witness ==
    /\ last = [op |-> "publish", ret |-> -1, line |-> 166]
    /\ Len(pend) = EVENT_QUEUE_SIZE
    /\ queue_get_count(g_queue) = EVENT_QUEUE_SIZE

(* C3: fan-out completeness.  When the dispatch of a record of type T  *)
(* is over and no handler called the bus during it, the handler calls  *)
(* made are exactly one per subscriber slot of T that was active and   *)
(* one per active observer slot, each with the slot's own callback and *)
(* context and with the record; no other call was made.                *)
C3_FanOut ==
    (disp.active /\ disp.done /\ disp.reent = {}) =>
        LET T == disp.event.type
            subs == ActiveSlots(disp.subs[T])
            obs == ActiveSlots(disp.obs)
            calls == disp.calls
        IN  /\ Len(calls) = Cardinality(subs) + Cardinality(obs)
            /\ \A j \in subs :
                  /\ Cardinality(CallsOf(calls, "sub", j)) = 1
                  /\ \A c \in CallsOf(calls, "sub", j) :
                        /\ calls[c].callback = disp.subs[T][j].callback
                        /\ calls[c].arg = disp.subs[T][j].arg
            /\ \A j \in obs :
                  /\ Cardinality(CallsOf(calls, "obs", j)) = 1
                  /\ \A c \in CallsOf(calls, "obs", j) :
                        /\ calls[c].callback = disp.obs[j].callback
                        /\ calls[c].arg = disp.obs[j].arg
            /\ \A c \in 1..Len(calls) :
                  /\ calls[c].event = disp.event
                  /\ calls[c].phase = "sub" => (calls[c].type = T /\ calls[c].slot \in subs)
                  /\ calls[c].phase = "obs" => calls[c].slot \in obs

(* A dispatch is over in which a subscriber and an observer were       *)
(* called while a subscriber of another type was active.               *)
C3_Witness ==
    /\ disp.active /\ disp.done /\ disp.reent = {}
    /\ ActiveSlots(disp.subs[disp.event.type]) # {}
    /\ ActiveSlots(disp.obs) # {}
    /\ \E t \in Types : t # disp.event.type /\ ActiveSlots(disp.subs[t]) # {}
    /\ Len(disp.calls) >= 2

(* C4: dispatch order.  Within the dispatch of one record no           *)
(* subscriber is called after an observer, and within the subscribers  *)
(* and within the observers the calls go by increasing slot index.     *)
C4_DispatchOrder ==
    disp.active =>
        \A a, b \in 1..Len(disp.calls) :
            a < b =>
                /\ disp.calls[a].phase = "obs" => disp.calls[b].phase = "obs"
                /\ disp.calls[a].phase = disp.calls[b].phase =>
                      disp.calls[a].slot < disp.calls[b].slot

(* Two subscribers and then an observer were called for one record. *)
C4_Witness ==
    /\ disp.active
    /\ Len(disp.calls) = 3
    /\ disp.calls[1].phase = "sub"
    /\ disp.calls[2].phase = "sub"
    /\ disp.calls[3].phase = "obs"

(* C5: re-entrant publish only appends.  While the handlers called the *)
(* bus only to publish, every handler of the dispatch is given the     *)
(* record the first handler was given, and the subscribers called are  *)
(* those of the type the record had when it was popped.                *)
C5_InFlightReadOnly ==
    (disp.active /\ disp.reent \subseteq {"publish"}) =>
        \A c \in 1..Len(disp.calls) :
            /\ disp.calls[c].event = disp.calls[1].event
            /\ disp.calls[c].phase = "sub" => disp.calls[c].type = disp.event.type

RegistryOps == {"subscribe", "unsubscribe", "register_observer", "unregister_observer"}

(* The slots whose handler was called in a dispatch. *)
CalledSlots(calls) == {<<calls[c].phase, calls[c].slot>> : c \in 1..Len(calls)}

(* C6, as claimed: registry changes made by a handler wait for the     *)
(* next record.  When the dispatch of a record is over and the         *)
(* handlers called the bus only to change registrations, the slots     *)
(* called are those that were active when the dispatch started.        *)
C6_Snapshot ==
    (disp.active /\ disp.done /\ disp.reent \subseteq RegistryOps) =>
        CalledSlots(disp.calls) =
            {<<"sub", j>> : j \in ActiveSlots(disp.subs[disp.event.type])}
                \cup {<<"obs", j>> : j \in ActiveSlots(disp.obs)}

(* The place of a slot in the order dispatch_event examines them. *)
ScanPos(ph, j) == IF ph = "sub" THEN j ELSE EVENT_SUBSCRIBER_MAX + j

(* Whether the slot at a place of that order is active now, for a      *)
(* record of type t.                                                   *)
ActiveAt(pos, t) ==
    IF pos < EVENT_SUBSCRIBER_MAX
    THEN g_subscribers[t][pos].used # 0
    ELSE g_observers[pos - EVENT_SUBSCRIBER_MAX].used # 0

(* C6, amended: registry changes take effect at once for the slots the *)
(* scan has not reached.  Whenever dispatch_event runs on (after a pop *)
(* or after a handler returned) up to its next call or its end, every  *)
(* slot it passes without a call is inactive at that moment and the    *)
(* slot it calls is active at that moment, the subscriber slots being  *)
(* those of the type the record holds at that moment.                  *)
C6_LiveScan ==
    [][LET scanning == \/ pc = "loop" /\ pc' # "idle"
                       \/ pc = "handler" /\ (pc' = "loop" \/ disp'.calls # disp.calls)
           ptr == IF pc = "loop" THEN g_queue.head ELSE e
           t == g_queue.queue[ptr].type
           from == IF pc = "loop" THEN 0 ELSE ScanPos(phase, i) + 1
           to == IF pc' = "handler"
                 THEN ScanPos(phase', i')
                 ELSE EVENT_SUBSCRIBER_MAX + EVENT_OBSERVER_MAX
       IN  scanning =>
              /\ from <= to
              /\ \A pos \in from..(to - 1) : ~ActiveAt(pos, t)
              /\ pc' = "handler" =>
                    /\ ActiveAt(to, t)
                    /\ disp'.calls[Len(disp'.calls)].callback =
                          LoopTable(phase', g_queue.queue[ptr])[i'].callback
                    /\ disp'.calls[Len(disp'.calls)].arg =
                          LoopTable(phase', g_queue.queue[ptr])[i'].arg]_vars

(* A subscriber that a handler added during the dispatch of a record   *)
(* has been called for that same record.                               *)
C6_Witness ==
    /\ disp.active
    /\ "subscribe" \in disp.reent
    /\ \E c \in 1..Len(disp.calls) :
          /\ disp.calls[c].phase = "sub"
          /\ disp.subs[disp.calls[c].type][disp.calls[c].slot].used = 0

(* The bus as static storage holds it before any call, but for the     *)
(* initialised flag.                                                   *)
AllZero ==
    /\ g_queue.head = 0
    /\ g_queue.tail = 0
    /\ g_queue.count = 0
    /\ \A k \in QueueSlots : g_queue.queue[k] = ZeroEvent
    /\ \A t \in Types, j \in SubSlots :
          g_subscribers[t][j] = [callback |-> NULL, arg |-> NULL, used |-> 0]
    /\ \A j \in ObsSlots : g_observers[j] = [callback |-> NULL, arg |-> NULL, used |-> 0]

(* C7: before the first EVENT_Init nothing has changed the bus and no  *)
(* handler runs: the registrations and publish have returned -1,       *)
(* EVENT_Process and EVENT_GetCount have returned 0, and the queue is  *)
(* empty with the initialised flag unset also after EVENT_ClearQueue.  *)
C7_BeforeInit ==
    g_initialized = 0 =>
        /\ AllZero
        /\ pc = "idle"
        /\ disp = NoDisp
        /\ last.op \in RegistryOps \cup {"publish"} => last.ret = -1
        /\ last.op \in {"process", "get_count"} => last.ret = 0
        /\ last.op # "init"

(* A publish has been refused on the bus that was never initialised. *)
C7_Witness ==
    g_initialized = 0 /\ last = [op |-> "publish", ret |-> -1, line |-> 148]

(* C8: reset.  Every EVENT_Init leaves the bus as the first one did:   *)
(* queue empty with head = tail = count = 0, every slot inactive, the  *)
(* flag set (so a second init changes nothing more); and an            *)
(* EVENT_Process that starts on such a bus returns 0 without a call.   *)
C8_Reset ==
    [][/\ (last'.op = "init" /\ EVENT_Init) => (g_initialized' = 1 /\ AllZero')
       /\ (pc = "loop" /\ count = 0 /\ g_initialized = 1 /\ AllZero) =>
             /\ pc' = "idle"
             /\ last' = [op |-> "process", ret |-> 0, line |-> 203]
             /\ disp' = NoDisp
             /\ UNCHANGED bus]_vars

(* EVENT_Init has just returned on a bus that had taken at least two   *)
(* publishes or registrations.                                         *)
C8_Witness ==
    /\ last.op = "init"
    /\ nops >= 2
    /\ g_initialized = 1
    /\ AllZero

(* The active slots of type t registered with the pair (cb, a). *)
Registered(t, cb, a) ==
    IF t \in Types
    THEN {j \in SubSlots : /\ g_subscribers[t][j].used # 0
                           /\ g_subscribers[t][j].callback = cb
                           /\ g_subscribers[t][j].arg = a}
    ELSE {}

(* C9: unsubscribe of an absent registration.  An unsubscribe for a    *)
(* pair with no active slot under the type returns -1 and changes      *)
(* nothing; for a pair registered once it returns 0 and leaves no      *)
(* active slot for the pair, so that the same call made again fails.   *)
C9_UnsubscribeAbsent ==
    [][last'.op = "unsubscribe" =>
       \A t \in TypeArgs, cb \in CallbackArgs, a \in Args :
          EVENT_Unsubscribe(t, cb, a) =>
              /\ Registered(t, cb, a) = {} => (last'.ret = -1 /\ UNCHANGED bus)
              /\ Cardinality(Registered(t, cb, a)) = 1 =>
                    /\ last'.ret = 0
                    /\ \A j \in SubSlots :
                          ~(/\ g_subscribers'[t][j].used # 0
                            /\ g_subscribers'[t][j].callback = cb
                            /\ g_subscribers'[t][j].arg = a)]_vars

(* An unsubscribe has found no match while a slot freed by an earlier  *)
(* unsubscribe still holds its callback.                               *)
C9_Witness ==
    /\ last = [op |-> "unsubscribe", ret |-> -1, line |-> 141]
    /\ \E t \in Types, j \in SubSlots :
          g_subscribers[t][j].used = 0 /\ g_subscribers[t][j].callback # NULL

(* C10: unsubscribe identity.  A successful unsubscribe(t, cb, a)      *)
(* clears the used flag of one slot of type t that was active with     *)
(* callback cb and context a, and changes nothing else: no other slot, *)
(* no observer, not the queue.                                         *)
C10_UnsubscribeIdentity ==
    [][(last'.op = "unsubscribe" /\ last'.ret = 0) =>
       \A t \in TypeArgs, cb \in CallbackArgs, a \in Args :
          EVENT_Unsubscribe(t, cb, a) =>
              /\ \E j \in Registered(t, cb, a) :
                    g_subscribers' = [g_subscribers EXCEPT ![t][j].used = 0]
              /\ UNCHANGED <<g_initialized, g_queue, g_observers>>]_vars

(* An unsubscribe has just freed a slot while another slot of the same *)
(* type stays active with the same callback and another context.       *)
C10_Witness ==
    /\ last = [op |-> "unsubscribe", ret |-> 0, line |-> 138]
    /\ \E t \in Types, j, k \in SubSlots :
          /\ g_subscribers[t][j].used = 0
          /\ g_subscribers[t][j].callback # NULL
          /\ g_subscribers[t][k].used # 0
          /\ g_subscribers[t][k].callback = g_subscribers[t][j].callback
          /\ g_subscribers[t][k].arg # g_subscribers[t][j].arg

(* C11: EVENT_ClearQueue drops every pending record, calls no handler  *)
(* and leaves the initialised flag and every subscriber and observer   *)
(* slot as they were; get_count is then 0, and an EVENT_Process that   *)
(* starts on an empty queue returns 0 without a handler call and       *)
(* without touching the bus.                                           *)
C11_ClearQueue ==
    [][/\ (last'.op = "clear_queue" /\ EVENT_ClearQueue) =>
             /\ queue_get_count(g_queue') = 0
             /\ LiveQueue(g_queue') = <<>>
             /\ pend' = <<>>
             /\ UNCHANGED <<g_initialized, g_subscribers, g_observers>>
             /\ UNCHANGED proc
             /\ disp.active => disp'.calls = disp.calls
       /\ (pc = "loop" /\ count = 0 /\ queue_get_count(g_queue) = 0) =>
             /\ pc' = "idle"
             /\ last' = [op |-> "process", ret |-> 0, line |-> 203]
             /\ hist'.ncalls = 0
             /\ UNCHANGED bus]_vars

(* EVENT_ClearQueue has just dropped at least one pending record while *)
(* a subscriber and an observer are registered.                        *)
C11_Witness ==
    /\ last.op = "clear_queue"
    /\ hist.dropped >= 1
    /\ queue_get_count(g_queue) = 0
    /\ \E t \in Types : ActiveSlots(g_subscribers[t]) # {}
    /\ ActiveSlots(g_observers) # {}

(* C12: publish validation.  On an initialised bus whose queue is not  *)
(* full, a publish fails when the type is out of range; for a valid    *)
(* type with a payload it succeeds exactly when the length is at most  *)
(* EVENT_DATA_SIZE_MAX (so at the maximum it succeeds, one above it    *)
(* fails); with no payload it succeeds whatever length is passed, and  *)
(* the record enqueued has data_size 0.                                *)
C12_PublishValidation ==
    [][last'.op = "publish" =>
       \A t \in TypeArgs, p \in Priorities, d \in DataArgs, n \in SizeArgs :
          (/\ g_initialized = 1
           /\ queue_get_count(g_queue) < EVENT_QUEUE_SIZE
           /\ EVENT_Publish(t, p, d, n)) =>
              /\ t >= EVENT_MAX_COUNT => last'.ret = -1
              /\ (t < EVENT_MAX_COUNT /\ d # NULL /\ n <= EVENT_DATA_SIZE_MAX) =>
                    /\ last'.ret = 0
                    /\ g_queue'.queue[g_queue.tail].data_size = n
              /\ (t < EVENT_MAX_COUNT /\ d # NULL /\ n > EVENT_DATA_SIZE_MAX) =>
                    last'.ret = -1
              /\ (t < EVENT_MAX_COUNT /\ d = NULL) =>
                    /\ last'.ret = 0
                    /\ g_queue'.queue[g_queue.tail].data_size = 0]_vars

(* The record last enqueued: the slot before tail. *)
Newest(q) == q.queue[(q.tail + EVENT_QUEUE_SIZE - 1) % EVENT_QUEUE_SIZE]

(* A publish with a payload of the maximum length has just succeeded. *)
C12_Witness ==
    /\ last = [op |-> "publish", ret |-> 0, line |-> 170]
    /\ queue_get_count(g_queue) >= 1
    /\ Newest(g_queue).data_size = EVENT_DATA_SIZE_MAX

SameRecord(a, b) ==
    /\ a.type = b.type
    /\ a.priority = b.priority
    /\ a.data_size = b.data_size
    /\ a.data = b.data

(* C14: record round trip.  Every handler called for a record that was *)
(* published with a payload is given the type, priority, data_size and *)
(* payload bytes the record was enqueued with; stated for dispatches   *)
(* during which the handlers called the bus, if at all, only to        *)
(* publish.                                                            *)
C14_RoundTrip ==
    (disp.active /\ disp.oldest.data_size > 0 /\ disp.reent \subseteq {"publish"}) =>
        \A c \in 1..Len(disp.calls) : SameRecord(disp.calls[c].event, disp.oldest)

(* C15: the return value of EVENT_Process.  When EVENT_Process returns *)
(* on an initialised bus it returns the number of records it dequeued, *)
(* however many handlers it called; when no handler called the bus     *)
(* that is the queue count on entry (0 for an empty queue); and the    *)
(* queue count is 0 at the return.                                     *)
C15_ProcessCount ==
    [][(pc = "loop" /\ pc' = "idle") =>
          /\ last'.op = "process"
          /\ last'.ret = hist.pops
          /\ nre = 0 => last'.ret = hist.entry
          /\ queue_get_count(g_queue') = 0]_vars

(* EVENT_Process has returned 2 after dequeuing the two records that   *)
(* were pending on entry and making four handler calls.                *)
C15_Witness ==
    /\ last = [op |-> "process", ret |-> 2, line |-> 203]
    /\ hist.entry = 2
    /\ hist.pops = 2
    /\ hist.ncalls = 4
    /\ queue_get_count(g_queue) = 0

(* C16: EVENT_Process is bounded.  A call of EVENT_Process dequeues at *)
(* most EVENT_QUEUE_SIZE records, while it runs and when it has        *)
(* returned, also when handlers publish during the dispatch.           *)
C16_Bounded ==
    /\ count <= EVENT_QUEUE_SIZE
    /\ hist.pops <= EVENT_QUEUE_SIZE
    /\ (last.op = "process" /\ last.line = 203) => last.ret <= EVENT_QUEUE_SIZE

(* The active observer slots that hold callback cb. *)
Observing(cb) ==
    {j \in ObsSlots : g_observers[j].used # 0 /\ g_observers[j].callback = cb}

(* C17: observers are unregistered by callback alone.  When an active  *)
(* observer slot holds cb, EVENT_UnregisterObserver(cb) returns 0 and  *)
(* clears the used flag of the lowest such slot, whatever its context, *)
(* and of no other slot; when none does it returns -1 and changes      *)
(* nothing; it never touches the subscribers or the queue.             *)
C17_UnregisterByCallback ==
    [][last'.op = "unregister_observer" =>
       \A cb \in CallbackArgs :
          EVENT_UnregisterObserver(cb) =>
              /\ Observing(cb) # {} =>
                    /\ last'.ret = 0
                    /\ \E j \in Observing(cb) :
                          /\ \A k \in Observing(cb) : j <= k
                          /\ g_observers' = [g_observers EXCEPT ![j].used = 0]
              /\ Observing(cb) = {} => (last'.ret = -1 /\ UNCHANGED g_observers)
              /\ UNCHANGED <<g_initialized, g_queue, g_subscribers>>]_vars

(* An unregistration has just freed a slot while a higher slot stays   *)
(* active with the same callback and another context.                  *)
C17_Witness ==
    /\ last = [op |-> "unregister_observer", ret |-> 0, line |-> 240]
    /\ \E j, k \in ObsSlots :
          /\ j < k
          /\ g_observers[j].used = 0
          /\ g_observers[j].callback # NULL
          /\ g_observers[k].used # 0
          /\ g_observers[k].callback = g_observers[j].callback
          /\ g_observers[k].arg # g_observers[j].arg

(* C18: queue structure.  In every reachable state count is between 0 *)
(* and EVENT_QUEUE_SIZE, head and tail are array indices, tail is      *)
(* count slots after head modulo EVENT_QUEUE_SIZE, and the count slots *)
(* from head hold the records published and not yet popped or cleared, *)
(* oldest first.                                                       *)
C18_QueueInvariant ==
    /\ g_queue.count \in 0..EVENT_QUEUE_SIZE
    /\ g_queue.head \in 0..(EVENT_QUEUE_SIZE - 1)
    /\ g_queue.tail \in 0..(EVENT_QUEUE_SIZE - 1)
    /\ g_queue.tail = (g_queue.head + g_queue.count) % EVENT_QUEUE_SIZE
    /\ Len(pend) = g_queue.count
    /\ \A k \in 1..g_queue.count :
          g_queue.queue[(g_queue.head + k - 1) % EVENT_QUEUE_SIZE] = pend[k]

(* The queue is full with head at the last array slot: the live        *)
(* records wrap around the end of the array.                           *)
C18_Witness ==
    /\ g_queue.head = EVENT_QUEUE_SIZE - 1
    /\ g_queue.count = EVENT_QUEUE_SIZE
    /\ g_queue.tail = g_queue.head
    /\ pend[1] # pend[EVENT_QUEUE_SIZE]

(* C19: slot allocation and lifecycle.  A subscribe with valid         *)
(* arguments on an initialised bus fails exactly when every slot of    *)
(* its type is active, whatever the other types hold, and otherwise    *)
(* fills the lowest inactive slot of the type (a freed one included)   *)
(* and changes no other slot; register_observer does the same over the *)
(* observer slots; and an active slot becomes inactive only in a step  *)
(* that is EVENT_Init or the unsubscribe (unregistration) of the       *)
(* slot's own callback and context (callback).                         *)
C19_SlotLifecycle ==
    [][/\ last'.op = "subscribe" =>
             \A t \in Types, cb \in Callbacks, a \in Args :
                (g_initialized = 1 /\ EVENT_Subscribe(t, cb, a)) =>
                    LET free == {j \in SubSlots : g_subscribers[t][j].used = 0}
                    IN  /\ free = {} => (last'.ret = -1 /\ UNCHANGED g_subscribers)
                        /\ free # {} =>
                              /\ last'.ret = 0
                              /\ \E j \in free :
                                    /\ \A k \in free : j <= k
                                    /\ g_subscribers' =
                                          [g_subscribers EXCEPT ![t][j] =
                                              [callback |-> cb, arg |-> a, used |-> 1]]
                        /\ UNCHANGED g_observers
       /\ last'.op = "register_observer" =>
             \A cb \in Callbacks, a \in Args :
                (g_initialized = 1 /\ EVENT_RegisterObserver(cb, a)) =>
                    LET free == {j \in ObsSlots : g_observers[j].used = 0}
                    IN  /\ free = {} => (last'.ret = -1 /\ UNCHANGED g_observers)
                        /\ free # {} =>
                              /\ last'.ret = 0
                              /\ \E j \in free :
                                    /\ \A k \in free : j <= k
                                    /\ g_observers' =
                                          [g_observers EXCEPT ![j] =
                                              [callback |-> cb, arg |-> a, used |-> 1]]
                        /\ UNCHANGED g_subscribers
       /\ \A t \in Types, j \in SubSlots :
             (g_subscribers[t][j].used # 0 /\ g_subscribers'[t][j].used = 0) =>
                 \/ EVENT_Init
                 \/ EVENT_Unsubscribe(t, g_subscribers[t][j].callback,
                                         g_subscribers[t][j].arg)
       /\ \A j \in ObsSlots :
             (g_observers[j].used # 0 /\ g_observers'[j].used = 0) =>
                 \/ EVENT_Init
                 \/ EVENT_UnregisterObserver(g_observers[j].callback)]_vars

(* A subscribe has just been refused because every slot of its type is *)
(* active, while another type has no subscriber at all.                *)
C19_Witness ==
    /\ last = [op |-> "subscribe", ret |-> -1, line |-> 124]
    /\ \E t \in Types : FreeSlots(g_subscribers[t]) = {}
    /\ \E t \in Types : FreeSlots(g_subscribers[t]) = SubSlots

(* The subscriber calls of a dispatch made with callback cb and        *)
(* context a.                                                          *)
CallsWith(calls, cb, a) ==
    {c \in 1..Len(calls) :
        calls[c].phase = "sub" /\ calls[c].callback = cb /\ calls[c].arg = a}

(* C20: registrations are not de-duplicated.  A subscribe with valid   *)
(* arguments succeeds whenever its type has an inactive slot, also for *)
(* a triple already registered, and then the triple holds one more     *)
(* slot; an unsubscribe succeeds exactly when the triple holds a slot  *)
(* and then it holds one fewer; and a dispatch during which no handler *)
(* called the bus has called each (callback, context) pair once per    *)
(* slot of the record's type that held it.                             *)
C20_NoDedup ==
    [][/\ last'.op = "subscribe" =>
             \A t \in Types, cb \in Callbacks, a \in Args :
                (g_initialized = 1 /\ EVENT_Subscribe(t, cb, a)) =>
                    /\ Cardinality(ActiveSlots(g_subscribers[t])) < EVENT_SUBSCRIBER_MAX
                          => last'.ret = 0
                    /\ last'.ret = 0 =>
                          Cardinality(Registered(t, cb, a)') =
                              Cardinality(Registered(t, cb, a)) + 1
       /\ last'.op = "unsubscribe" =>
             \A t \in Types, cb \in Callbacks, a \in Args :
                (g_initialized = 1 /\ EVENT_Unsubscribe(t, cb, a)) =>
                    /\ last'.ret = 0 <=> Registered(t, cb, a) # {}
                    /\ last'.ret = 0 =>
                          Cardinality(Registered(t, cb, a)') =
                              Cardinality(Registered(t, cb, a)) - 1
       /\ (disp.active /\ disp.done /\ disp.reent = {}) =>
             \A cb \in Callbacks, a \in Args :
                Cardinality(CallsWith(disp.calls, cb, a)) =
                    Cardinality({j \in ActiveSlots(disp.subs[disp.event.type]) :
                                    /\ disp.subs[disp.event.type][j].callback = cb
                                    /\ disp.subs[disp.event.type][j].arg = a})]_vars

(* One record has been dispatched twice to the same callback with the  *)
(* same context, registered in two slots of the record's type.         *)
C20_Witness ==
    /\ disp.active /\ disp.done /\ disp.reent = {}
    /\ Len(disp.calls) = 2
    /\ disp.calls[1].phase = "sub"
    /\ disp.calls[2].phase = "sub"
    /\ disp.calls[1].callback = disp.calls[2].callback
    /\ disp.calls[1].arg = disp.calls[2].arg
    /\ disp.calls[1].slot # disp.calls[2].slot

====
